---- MODULE Spec2Model ----
(***************************************************************************)
(* Model of curve::Spline (Spline.hpp) and curve::NURBS (NURBS.hpp).       *)
(*                                                                         *)
(* A Real is modelled exactly, as a fraction <<num, den>> in lowest terms  *)
(* with den > 0, extended with the three non-finite values a division by   *)
(* zero produces: <<1,0>> (+inf), <<-1,0>> (-inf) and <<0,0>> (NaN).       *)
(* Rounding of float/double is not modelled.  A Point is modelled in one   *)
(* dimension (template parameter N = 1): a coordinate x and a weight w.    *)
(***************************************************************************)
EXTENDS Integers, Sequences, FiniteSets, TLC

\* ------------------------------------------------------------------ bounds
MaxPoints == 4
MaxDegree == 2
MaxCustomKnots == 4
MaxParam == 5
MaxOrder == 2

MaxRecursionDepth == 3

\* --------------------------------------------------------- Real arithmetic
Abs(i) == IF i < 0 THEN -i ELSE i

Sign(i) == IF i < 0 THEN -1 ELSE IF i > 0 THEN 1 ELSE 0

RECURSIVE GCD(_, _)
GCD(a, b) == IF b = 0 THEN a ELSE GCD(b, a % b)

\* The Real num/den, in canonical form.
Norm(num, den) ==
    IF den = 0 THEN <<Sign(num), 0>>
    ELSE LET g == GCD(Abs(num), Abs(den))
         IN  <<(Sign(den) * num) \div g, Abs(den) \div g>>

\* (Real)( i )
R(i) == <<i, 1>>

Zero == R(0)
One == R(1)
NaN == <<0, 0>>

IsNaN(a) == a = NaN
IsFinite(a) == a[2] # 0

RNeg(a) == <<-a[1], a[2]>>

RAdd(a, b) ==
    IF IsNaN(a) \/ IsNaN(b) THEN NaN
    ELSE IF a[2] = 0 /\ b[2] = 0 THEN (IF a[1] = b[1] THEN a ELSE NaN)
    ELSE IF a[2] = 0 THEN a
    ELSE IF b[2] = 0 THEN b
    ELSE Norm(a[1] * b[2] + b[1] * a[2], a[2] * b[2])

RSub(a, b) == RAdd(a, RNeg(b))

RMul(a, b) == Norm(a[1] * b[1], a[2] * b[2])

RDiv(a, b) == RMul(a, Norm(b[2], b[1]))

RAbs(a) == <<Abs(a[1]), a[2]>>

\* a < b; every comparison with a NaN is false.
RLt(a, b) ==
    /\ ~IsNaN(a)
    /\ ~IsNaN(b)
    /\ IF a[2] = 0 \/ b[2] = 0
       THEN (IF a[2] = 0 THEN a[1] ELSE 0) < (IF b[2] = 0 THEN b[1] ELSE 0)
       ELSE a[1] * b[2] < b[1] * a[2]

RLe(a, b) == ~IsNaN(a) /\ ~IsNaN(b) /\ (a = b \/ RLt(a, b))

RGe(a, b) == RLe(b, a)

\* std::max( a, b ) and std::min( a, b )
StdMax(a, b) == IF RLt(a, b) THEN b ELSE a

StdMin(a, b) == IF RLt(b, a) THEN b ELSE a

\* ------------------------------------------------------------ input sets
\* geom::Vector<1, Real>: coordinate and weight.
Pt(x, w) == [x |-> R(x), w |-> R(w)]

Points == {Pt(0, 1), Pt(3, 2)}

Degrees == 0..MaxDegree

RECURSIVE SeqsUpTo(_, _)
SeqsUpTo(S, n) ==
    IF n = 0 THEN {<< >>}
    ELSE LET T == SeqsUpTo(S, n - 1)
         IN  T \cup {Append(t, s) : t \in {q \in T : Len(q) = n - 1}, s \in S}

PointSeqs == SeqsUpTo(Points, MaxPoints)

NonDecreasing(U) == \A i \in 1..(Len(U) - 1) : RLe(U[i], U[i + 1])

\* Knot vectors a caller hands to the custom-knot constructor.
CustomKnots == {U \in SeqsUpTo({Zero, One}, MaxCustomKnots) : NonDecreasing(U)}

\* Orders d handed to derivative.
Orders == 0..MaxOrder

\* Parameters t handed to the evaluator: the halves in [-1, (MaxParam-2)/2].
Params == {Norm(i, 2) : i \in (-2)..(MaxParam - 2)}

\* ------------------------------------------------------------------ state
VARIABLES controlPoints, knotVector, degree, uniform, clamped, ret, writer, reader

vars == <<controlPoints, knotVector, degree, uniform, clamped, ret, writer, reader>>

\* ------------------------------------------- Spline::computeUniformKnotVector
RECURSIVE ClampedZeros(_, _, _)
ClampedZeros(kv, i, d) ==
    IF i <= d THEN ClampedZeros(Append(kv, Zero), i + 1, d) ELSE <<kv, i>>

\* ClampedInterior without the shift by the degree: i / n.
RECURSIVE ClampedInterior_noShift(_, _, _, _, _)
ClampedInterior_noShift(kv, i, d, numPoints, n) ==
    IF i < numPoints
    THEN ClampedInterior_noShift(Append(kv, RDiv(R(i), R(n))), i + 1, d, numPoints, n)
    ELSE <<kv, i>>

RECURSIVE ClampedInterior(_, _, _, _, _)
ClampedInterior(kv, i, d, numPoints, n) ==
    IF i < numPoints
    THEN ClampedInterior(Append(kv, RDiv(R(i - d), R(n))), i + 1, d, numPoints, n)
    ELSE <<kv, i>>

RECURSIVE ClampedOnes(_, _, _)
ClampedOnes(kv, i, numKnots) ==
    IF i < numKnots THEN ClampedOnes(Append(kv, One), i + 1, numKnots) ELSE <<kv, i>>

\* OpenFill dividing by numKnots instead of numKnots - 1.
RECURSIVE OpenFill_byCount(_, _, _)
OpenFill_byCount(kv, i, numKnots) ==
    IF i < numKnots
    THEN OpenFill_byCount(Append(kv, RDiv(R(i), R(numKnots))), i + 1, numKnots)
    ELSE <<kv, i>>

RECURSIVE OpenFill(_, _, _)
OpenFill(kv, i, numKnots) ==
    IF i < numKnots
    THEN OpenFill(Append(kv, RDiv(R(i), R(numKnots - 1))), i + 1, numKnots)
    ELSE <<kv, i>>

\* GenerateKnots with numKnots computed without the "+ 1".
GenerateKnots_short(numPoints, d, c) ==
    LET numKnots == numPoints + d
        n == numPoints - d
    IN  IF c
        THEN LET s1 == ClampedZeros(<< >>, 0, d)
                 s2 == ClampedInterior(s1[1], s1[2], d, numPoints, n)
                 s3 == ClampedOnes(s2[1], s2[2], numKnots)
             IN  s3[1]
        ELSE OpenFill(<< >>, 0, numKnots)[1]

\* The knot vector the generation rule produces for numPoints control
\* points, degree d and the clamped flag c.
GenerateKnots(numPoints, d, c) ==
    LET numKnots == numPoints + d + 1
        n == numPoints - d
    IN  IF c
        THEN LET s1 == ClampedZeros(<< >>, 0, d)
                 s2 == ClampedInterior(s1[1], s1[2], d, numPoints, n)
                 s3 == ClampedOnes(s2[1], s2[2], numKnots)
             IN  s3[1]
        ELSE OpenFill(<< >>, 0, numKnots)[1]

\* computeUniformKnotVector without the early return of a non-uniform spline.
computeUniformKnotVector_always(cps, kv, d, u, c) == GenerateKnots(Len(cps), d, c)

\* The value of _knotVector after computeUniformKnotVector() ran on a spline
\* with control points cps, knot vector kv, degree d and flags u, c.
computeUniformKnotVector(cps, kv, d, u, c) ==
    IF ~u THEN kv ELSE GenerateKnots(Len(cps), d, c)

\* ------------------------------------------------------------ geom::Vector
\* Vector(): the origin, weight 1.
VecOrigin == [x |-> Zero, w |-> One]

\* operator*( Real ): scales the coordinates of a fresh Vector().
VecScale(v, r) == [x |-> RMul(v.x, r), w |-> One]

\* operator/( Real ): divides the coordinates of a fresh Vector().
VecDiv(v, r) == [x |-> RDiv(v.x, r), w |-> One]

\* operator+=( Vector ): adds the coordinates.
VecAddAssign(a, b) == [x |-> RAdd(a.x, b.x), w |-> a.w]

\* ------------------------------------------------------------ outcomes
\* A call returns a value, throws std::out_of_range (vector::at), never
\* returns ("loop"), or has undefined behaviour ("ub").
Ok(v) == [kind |-> "ok", val |-> v]

Throw == [kind |-> "throw"]

Loop == [kind |-> "loop"]

Undefined == [kind |-> "ub"]

\* U.at( i ) does not throw (i counts from 0).
InRange(U, i) == i >= 0 /\ i < Len(U)

\* U.at( i ), for an index in range.
At(U, i) == U[i + 1]

\* ------------------------------------------------------------ NURBS::findSpan
\* SpanSearch returning its first midpoint.
SpanSearch_first(low, high, mid, u, U) == Ok(mid)

\* The binary search between low and high, from the midpoint mid on.
RECURSIVE SpanSearch(_, _, _, _, _)
SpanSearch(low, high, mid, u, U) ==
    IF ~InRange(U, mid) THEN Throw
    ELSE IF RLt(u, At(U, mid))
    THEN LET m2 == (low + mid) \div 2
         IN  IF mid = high THEN Loop ELSE SpanSearch(low, mid, m2, u, U)
    ELSE IF ~InRange(U, mid + 1) THEN Throw
    ELSE IF RGe(u, At(U, mid + 1))
    THEN LET m2 == (mid + high) \div 2
         IN  IF mid = low THEN Loop ELSE SpanSearch(mid, high, m2, u, U)
    ELSE Ok(mid)

\* findSpan returning the upper end of the search range, n + 1, at the upper
\* boundary.
findSpan_high(n, p, u, U) ==
    IF ~InRange(U, p) THEN Throw
    ELSE IF RLe(u, At(U, p)) THEN Ok(p)
    ELSE IF ~InRange(U, n + 1) THEN Throw
    ELSE IF RGe(u, At(U, n + 1)) THEN Ok(n + 1)
    ELSE SpanSearch(p, n + 1, (p + n + 1) \div 2, u, U)

\* findSpan with the results of the two boundary cases exchanged.
findSpan_swapped(n, p, u, U) ==
    IF ~InRange(U, p) THEN Throw
    ELSE IF RLe(u, At(U, p)) THEN Ok(n)
    ELSE IF ~InRange(U, n + 1) THEN Throw
    ELSE IF RGe(u, At(U, n + 1)) THEN Ok(p)
    ELSE SpanSearch(p, n + 1, (p + n + 1) \div 2, u, U)

findSpan(n, p, u, U) ==
    IF ~InRange(U, p) THEN Throw
    ELSE IF RLe(u, At(U, p)) THEN Ok(p)
    ELSE IF ~InRange(U, n + 1) THEN Throw
    ELSE IF RGe(u, At(U, n + 1)) THEN Ok(n)
    ELSE SpanSearch(p, n + 1, (p + n + 1) \div 2, u, U)

\* ----------------------------------------------------------- NURBS::basisFuns
\* BasisInner with left and right exchanged in the two updates.
RECURSIVE BasisInner_swapped(_, _, _, _, _, _)
BasisInner_swapped(N, left, right, saved, j, r) ==
    IF r < j
    THEN LET temp == RDiv(N[r], RAdd(right[r + 1], left[j - r]))
         IN  BasisInner_swapped([N EXCEPT ![r] = RAdd(saved, RMul(left[j - r], temp))],
                                left, right, RMul(right[r + 1], temp), j, r + 1)
    ELSE [N EXCEPT ![j] = saved]

\* BasisInner with temp = N_[ r ] / right[ r+1 ].
RECURSIVE BasisInner_noLeft(_, _, _, _, _, _)
BasisInner_noLeft(N, left, right, saved, j, r) ==
    IF r < j
    THEN LET temp == RDiv(N[r], right[r + 1])
         IN  BasisInner_noLeft([N EXCEPT ![r] = RAdd(saved, RMul(right[r + 1], temp))],
                               left, right, RMul(left[j - r], temp), j, r + 1)
    ELSE [N EXCEPT ![j] = saved]

\* The inner loop over r, then N_[ j ] = saved.
RECURSIVE BasisInner(_, _, _, _, _, _)
BasisInner(N, left, right, saved, j, r) ==
    IF r < j
    THEN LET temp == RDiv(N[r], RAdd(right[r + 1], left[j - r]))
         IN  BasisInner([N EXCEPT ![r] = RAdd(saved, RMul(right[r + 1], temp))],
                        left, right, RMul(left[j - r], temp), j, r + 1)
    ELSE [N EXCEPT ![j] = saved]

\* The outer loop over j.
RECURSIVE BasisOuter(_, _, _, _, _, _, _, _)
BasisOuter(N, left, right, j, i, u, p, U) ==
    IF j > p THEN Ok(N)
    ELSE IF ~InRange(U, i + 1 - j) \/ ~InRange(U, i + j) THEN Throw
    ELSE LET l2 == [left EXCEPT ![j] = RSub(u, At(U, i + 1 - j))]
             r2 == [right EXCEPT ![j] = RSub(At(U, i + j), u)]
         IN  BasisOuter(BasisInner(N, l2, r2, Zero, j, 0), l2, r2, j + 1, i, u, p, U)

\* N_[ 0..p ] after basisFuns( i, u, p, U, N_ ).  The arrays start with
\* indeterminate cells; every cell the loops read was written before, so
\* the filler of the unwritten cells never reaches a result.
basisFuns(i, u, p, U) ==
    BasisOuter([k \in 0..p |-> IF k = 0 THEN One ELSE Zero],
               [k \in 0..p |-> Zero], [k \in 0..p |-> Zero], 1, i, u, p, U)

\* ---------------------------------------------------------- NURBS::curvePoint
\* The loop over j: Cw += Pi * Pi.weight() * N_[ j ].
RECURSIVE CurvePointSum(_, _, _, _, _, _)
CurvePointSum(Cw, j, span, p, Pw, N) ==
    IF j > p THEN Ok(Cw)
    ELSE IF ~InRange(Pw, span - p + j) THEN Undefined
    ELSE LET Pi == At(Pw, span - p + j)
         IN  CurvePointSum(VecAddAssign(Cw, VecScale(VecScale(Pi, Pi.w), N[j])),
                           j + 1, span, p, Pw, N)

\* C = Cw / Cw.weight()
CurvePointDivide(Cw) ==
    IF Cw.kind # "ok" THEN Cw ELSE Ok(VecDiv(Cw.val, Cw.val.w))

\* curvePoint from the loop over j on, N being the outcome of basisFuns.
CurvePointFrom(N, span, p, Pw) ==
    IF N.kind # "ok" THEN N
    ELSE CurvePointDivide(CurvePointSum(VecOrigin, 0, span, p, Pw, N.val))

\* curvePoint from basisFuns on, span being the outcome of findSpan.
CurvePointAt(span, p, U, Pw, u) ==
    IF span.kind # "ok" THEN span
    ELSE CurvePointFrom(basisFuns(span.val, u, p, U), span.val, p, Pw)

curvePoint(n, p, U, Pw, u) == CurvePointAt(findSpan(n, p, u, U), p, U, Pw, u)

\* --------------------------------------------------------- NURBS::Matrix
\* sizeof( Real ) for Real = float.
SizeofReal == 4

\* Matrix( m, n ): rows, cols and m * n * sizeof( Real ) cells that hold
\* indeterminate values until they are written.
Indeterminate == "indeterminate"

Matrix(m, n) ==
    [rows |-> m, cols |-> n,
     data |-> [c \in 0..(m * n * SizeofReal - 1) |-> Indeterminate]]

\* The offset in data of the cell M[ i ][ j ]: operator[] returns
\* &data[ rows * i ], the caller adds j.
Offset(M, i, j) == M.rows * i + j

MatrixGet(M, i, j) == M.data[Offset(M, i, j)]

MatrixSet(M, i, j, v) == [M EXCEPT !.data[Offset(M, i, j)] = v]

\* ------------------------------------------------------- NURBS::dersBasisFuns
\* The inner loop over r of the first part, then ndu[ j ][ j ] = saved.
RECURSIVE NduInner(_, _, _, _, _, _)
NduInner(ndu, left, right, saved, j, r) ==
    IF r < j
    THEN LET lower == [ndu EXCEPT ![<<j, r>>] = RAdd(right[r + 1], left[j - r])]
             temp == RDiv(lower[<<r, j - 1>>], lower[<<j, r>>])
             upper == [lower EXCEPT ![<<r, j>>] = RAdd(saved, RMul(right[r + 1], temp))]
         IN  NduInner(upper, left, right, RMul(left[j - r], temp), j, r + 1)
    ELSE [ndu EXCEPT ![<<j, j>>] = saved]

\* The outer loop over j of the first part.
RECURSIVE NduOuter(_, _, _, _, _, _, _, _)
NduOuter(ndu, left, right, j, i, u, p, U) ==
    IF j > p THEN Ok(ndu)
    ELSE IF ~InRange(U, i + 1 - j) \/ ~InRange(U, i + j) THEN Throw
    ELSE LET l2 == [left EXCEPT ![j] = RSub(u, At(U, i + 1 - j))]
             r2 == [right EXCEPT ![j] = RSub(At(U, i + j), u)]
         IN  NduOuter(NduInner(ndu, l2, r2, Zero, j, 0), l2, r2, j + 1, i, u, p, U)

\* Load the basis functions: ders[ 0 ][ j ] = ndu[ j ][ p ].
RECURSIVE LoadBasis(_, _, _, _)
LoadBasis(ders, ndu, j, p) ==
    IF j > p THEN ders
    ELSE LoadBasis(MatrixSet(ders, 0, j, ndu[<<j, p>>]), ndu, j + 1, p)

\* The loop over j from j1 to j2 inside the loop over k; yields <<a, d>>.
RECURSIVE DersJLoop(_, _, _, _, _, _, _, _, _)
DersJLoop(a, d, j, j2, s1, s2, rk, pk, ndu) ==
    IF j > j2 THEN <<a, d>>
    ELSE LET a2 == [a EXCEPT ![<<s2, j>>] =
                        RDiv(RSub(a[<<s1, j>>], a[<<s1, j - 1>>]), ndu[<<pk + 1, rk + j>>])]
         IN  DersJLoop(a2, RAdd(d, RMul(a2[<<s2, j>>], ndu[<<rk + j, pk>>])),
                       j + 1, j2, s1, s2, rk, pk, ndu)

\* d = 0.0; if ( r >= k ) { a[s2][0] = ...; d = a[s2][0] * ndu[rk][pk]; }
\* yields <<a, d>>.
DersKFirst(a, s1, s2, k, r, p, ndu) ==
    IF r >= k
    THEN LET q == RDiv(a[<<s1, 0>>], ndu[<<p - k + 1, r - k>>])
         IN  <<[a EXCEPT ![<<s2, 0>>] = q], RMul(q, ndu[<<r - k, p - k>>])>>
    ELSE <<a, Zero>>

\* The bounds j1 and j2 and the loop over j, ad being <<a, d>> before.
DersKMiddle(ad, s1, s2, k, r, p, ndu) ==
    DersJLoop(ad[1], ad[2],
              IF r - k >= -1 THEN 1 ELSE -(r - k),
              IF r - 1 <= p - k THEN k - 1 ELSE p - r,
              s1, s2, r - k, p - k, ndu)

\* if ( r <= pk ) { a[s2][k] = ...; d += a[s2][k] * ndu[r][pk]; }
DersKLast(ad, s1, s2, k, r, p, ndu) ==
    IF r <= p - k
    THEN LET q == RDiv(RNeg(ad[1][<<s1, k - 1>>]), ndu[<<p - k + 1, r>>])
         IN  <<[ad[1] EXCEPT ![<<s2, k>>] = q], RAdd(ad[2], RMul(q, ndu[<<r, p - k>>]))>>
    ELSE ad

\* The body of the loop over k up to the value of d; yields <<a, d>>.
DersKBody(a, s1, s2, k, r, p, ndu) ==
    DersKLast(DersKMiddle(DersKFirst(a, s1, s2, k, r, p, ndu), s1, s2, k, r, p, ndu),
              s1, s2, k, r, p, ndu)

\* The loop over k for one r; yields <<ders, a>>.
RECURSIVE DersKLoop(_, _, _, _, _, _, _, _, _)
RECURSIVE DersKStore(_, _, _, _, _, _, _, _, _)
DersKLoop(ders, a, s1, s2, k, r, p, n, ndu) ==
    IF k > n THEN <<ders, a>>
    ELSE DersKStore(DersKBody(a, s1, s2, k, r, p, ndu), ders, s1, s2, k, r, p, n, ndu)

\* ders[ k ][ r ] = d, then the rows s1 and s2 are switched.
DersKStore(ad, ders, s1, s2, k, r, p, n, ndu) ==
    DersKLoop(MatrixSet(ders, k, r, ad[2]), ad[1], s2, s1, k + 1, r, p, n, ndu)

\* The loop over r of the section that computes the derivatives.
RECURSIVE DersRLoop(_, _, _, _, _, _)
RECURSIVE DersRNext(_, _, _, _, _)
DersRLoop(ders, a, r, p, n, ndu) ==
    IF r > p THEN ders
    ELSE DersRNext(DersKLoop(ders, [a EXCEPT ![<<0, 0>>] = One], 0, 1, 1, r, p, n, ndu),
                   r, p, n, ndu)

\* The next round of the loop over r, kl being <<ders, a>> after this one.
DersRNext(kl, r, p, n, ndu) == DersRLoop(kl[1], kl[2], r + 1, p, n, ndu)

\* ders[ k ][ j ] *= r for j = 0..p.
RECURSIVE ScaleRow(_, _, _, _, _)
ScaleRow(ders, k, j, p, r) ==
    IF j > p THEN ders
    ELSE ScaleRow(MatrixSet(ders, k, j, RMul(MatrixGet(ders, k, j), R(r))), k, j + 1, p, r)

\* Multiply through by the correct factors.
RECURSIVE ScaleRows(_, _, _, _, _)
ScaleRows(ders, k, r, p, n) ==
    IF k > n THEN ders
    ELSE ScaleRows(ScaleRow(ders, k, 0, p, r), k + 1, r * (p - k), p, n)

\* The matrix ders after dersBasisFuns( i, u, p, n, U, ders ).
\* dersBasisFuns from the loading of the basis functions on, ndu being the
\* outcome of the first part.
DersFromNdu(ndu, p, n, ders) ==
    IF ndu.kind # "ok" THEN ndu
    ELSE Ok(ScaleRows(DersRLoop(LoadBasis(ders, ndu.val, 0, p),
                                [c \in (0..1) \X (0..p) |-> Indeterminate],
                                0, p, n, ndu.val),
                      1, p, p, n))

dersBasisFuns(i, u, p, n, U, ders) ==
    DersFromNdu(NduOuter([c \in (0..p) \X (0..p) |-> IF c = <<0, 0>> THEN One ELSE Indeterminate],
                         [k \in 0..p |-> Indeterminate], [k \in 0..p |-> Indeterminate],
                         1, i, u, p, U),
                p, n, ders)

\* ---------------------------------------------------------- NURBS::curveDerivs
Min(a, b) == IF b < a THEN b ELSE a

\* DerivRow scaling each control point by its weight, as curvePoint does.
RECURSIVE DerivRow_weighted(_, _, _, _, _, _, _)
DerivRow_weighted(CK, k, j, span, p, P, nders) ==
    IF j > p THEN Ok(CK)
    ELSE IF ~InRange(P, span - p + j) THEN Undefined
    ELSE DerivRow_weighted(
             [CK EXCEPT ![k] = VecAddAssign(CK[k],
                                   VecScale(VecScale(At(P, span - p + j), At(P, span - p + j).w),
                                            MatrixGet(nders, k, j)))],
             k, j + 1, span, p, P, nders)

\* The loop over j: CK[ k ] += P[ span-p+j ] * nders[ k ][ j ].
RECURSIVE DerivRow(_, _, _, _, _, _, _)
DerivRow(CK, k, j, span, p, P, nders) ==
    IF j > p THEN Ok(CK)
    ELSE IF ~InRange(P, span - p + j) THEN Undefined
    ELSE DerivRow([CK EXCEPT ![k] = VecAddAssign(CK[k],
                                        VecScale(At(P, span - p + j), MatrixGet(nders, k, j)))],
                  k, j + 1, span, p, P, nders)

\* The loop over k.
RECURSIVE DerivRows(_, _, _, _, _, _, _)
RECURSIVE DerivRowsNext(_, _, _, _, _, _, _)
DerivRows(CK, k, du, span, p, P, nders) ==
    IF k > du THEN Ok(CK)
    ELSE DerivRowsNext(DerivRow(CK, k, 0, span, p, P, nders), k, du, span, p, P, nders)

\* The next round of the loop over k, row being the outcome of this one.
DerivRowsNext(row, k, du, span, p, P, nders) ==
    IF row.kind # "ok" THEN row
    ELSE DerivRows(row.val, k + 1, du, span, p, P, nders)

\* The array CK[ 0..d ] after curveDerivs( n, p, U, P, u, d, CK ), CK
\* holding d + 1 origins before.
\* curveDerivs from the loop over k on, nders being the outcome of
\* dersBasisFuns.
CurveDerivsFrom(nders, span, p, P, d) ==
    IF nders.kind # "ok" THEN nders
    ELSE DerivRows([k \in 0..d |-> VecOrigin], 0, Min(d, p), span, p, P, nders.val)

\* curveDerivs from dersBasisFuns on, span being the outcome of findSpan.
CurveDerivsAt(span, p, U, P, u, d) ==
    IF span.kind # "ok" THEN span
    ELSE CurveDerivsFrom(dersBasisFuns(span.val, u, p, Min(d, p), U, Matrix(d + 1, p + 1)),
                         span.val, p, P, d)

curveDerivs(n, p, U, P, u, d) == CurveDerivsAt(findSpan(n, p, u, U), p, U, P, u, d)

\* ----------------------------------------------------- NURBS::adjustParameter
\* while ( u < minKnot ) u += total;
RECURSIVE WrapUp(_, _, _)
WrapUp(u, minKnot, total) ==
    IF RLt(u, minKnot)
    THEN (IF RAdd(u, total) = u THEN Loop ELSE WrapUp(RAdd(u, total), minKnot, total))
    ELSE Ok(u)

\* WrapDown with the test u > maxKnot.
RECURSIVE WrapDown_strict(_, _, _)
WrapDown_strict(u, maxKnot, total) ==
    IF RLt(maxKnot, u)
    THEN (IF RSub(u, total) = u THEN Loop ELSE WrapDown_strict(RSub(u, total), maxKnot, total))
    ELSE Ok(u)

\* while ( u >= maxKnot ) u -= total;
RECURSIVE WrapDown(_, _, _)
WrapDown(u, maxKnot, total) ==
    IF RGe(u, maxKnot)
    THEN (IF RSub(u, total) = u THEN Loop ELSE WrapDown(RSub(u, total), maxKnot, total))
    ELSE Ok(u)

\* The second loop of adjustParameter, up being the outcome of the first.
Wrap(up, maxKnot, total) ==
    IF up.kind # "ok" THEN up ELSE WrapDown(up.val, maxKnot, total)

\* adjustParameter without the loop that wraps upwards.
adjustParameter_noWrapUp(u, U, c) ==
    IF Len(U) = 0 THEN Undefined
    ELSE LET minKnot == U[1]
             maxKnot == U[Len(U)]
         IN  IF c THEN Ok(StdMin(StdMax(u, minKnot), maxKnot))
             ELSE WrapDown(u, maxKnot, RAbs(RSub(maxKnot, minKnot)))

\* The value of u after adjustParameter( u ) on a curve with knot vector U
\* and clamped flag c; front() and back() of an empty vector are undefined.
adjustParameter(u, U, c) ==
    IF Len(U) = 0 THEN Undefined
    ELSE IF c THEN Ok(StdMin(StdMax(u, U[1]), U[Len(U)]))
    ELSE Wrap(WrapUp(u, U[1], RAbs(RSub(U[Len(U)], U[1]))),
              U[Len(U)], RAbs(RSub(U[Len(U)], U[1])))

\* ---------------------------------------------------------- NURBS::operator()
\* The outcome of operator()( t ) on the curve (cps, U, p, c).
PositionAt(u, cps, U, p) ==
    IF u.kind # "ok" THEN u ELSE curvePoint(Len(cps) - 1, p, U, cps, u.val)

Position(t, cps, U, p, c) == PositionAt(adjustParameter(t, U, c), cps, U, p)

\* ------------------------------------------------------------ constructors
Void(op) == [op |-> op, kind |-> "void"]

\* No thread is inside pushControlPoint.
WriterIdle == [pc |-> "idle", numPoints |-> 0, numKnots |-> 0]

\* No thread is inside operator() or derivative.
ReaderIdle == [pc |-> "idle"]

\* Spline( int degree )
InitDegree ==
    \E d \in Degrees :
        /\ controlPoints = << >>
        /\ degree = d
        /\ uniform = TRUE
        /\ clamped = TRUE
        /\ knotVector = computeUniformKnotVector(<< >>, << >>, d, TRUE, TRUE)
        /\ ret = Void("Spline")
        /\ writer = WriterIdle
        /\ reader = ReaderIdle

\* Spline( points, int degree )
InitPoints ==
    \E d \in Degrees, pts \in PointSeqs :
        /\ controlPoints = pts
        /\ degree = d
        /\ uniform = TRUE
        /\ clamped = TRUE
        /\ knotVector = computeUniformKnotVector(pts, << >>, d, TRUE, TRUE)
        /\ ret = Void("Spline")
        /\ writer = WriterIdle
        /\ reader = ReaderIdle

\* Spline( points, knots, int degree )
InitKnots ==
    \E d \in Degrees, pts \in PointSeqs, kn \in CustomKnots :
        /\ controlPoints = pts
        /\ degree = d
        /\ uniform = FALSE
        /\ clamped = TRUE
        /\ knotVector = computeUniformKnotVector(pts, kn, d, FALSE, TRUE)
        /\ ret = Void("Spline")
        /\ writer = WriterIdle
        /\ reader = ReaderIdle

Init == InitDegree \/ InitPoints \/ InitKnots

\* ---------------------------------------------------------------- mutators
InsertAt(s, pos, e) == SubSeq(s, 1, pos) \o <<e>> \o SubSeq(s, pos + 1, Len(s))

RemoveAt(s, pos) == SubSeq(s, 1, pos) \o SubSeq(s, pos + 2, Len(s))

\* pos counts from begin(): 0 is begin(), Len is end().
insertControlPoint(pos, point) ==
    /\ Len(controlPoints) < MaxPoints
    /\ pos \in 0..Len(controlPoints)
    /\ controlPoints' = InsertAt(controlPoints, pos, point)
    /\ knotVector' = computeUniformKnotVector(controlPoints', knotVector, degree, uniform, clamped)
    /\ ret' = Void("insert")
    /\ UNCHANGED <<degree, uniform, clamped, writer, reader>>

pushControlPoint(point) ==
    /\ Len(controlPoints) < MaxPoints
    /\ controlPoints' = Append(controlPoints, point)
    /\ knotVector' = computeUniformKnotVector(controlPoints', knotVector, degree, uniform, clamped)
    /\ ret' = Void("push")
    /\ UNCHANGED <<degree, uniform, clamped, writer, reader>>

eraseControlPoint(pos) ==
    /\ pos \in 0..(Len(controlPoints) - 1)
    /\ controlPoints' = RemoveAt(controlPoints, pos)
    /\ knotVector' = computeUniformKnotVector(controlPoints', knotVector, degree, uniform, clamped)
    /\ ret' = Void("erase")
    /\ UNCHANGED <<degree, uniform, clamped, writer, reader>>

\* replaceControlPoint that also regenerates the knots, as the structural
\* mutators do.
replaceControlPoint_regen(pos, point) ==
    /\ pos \in 0..Len(controlPoints)
    /\ IF pos < Len(controlPoints)
       THEN /\ controlPoints' = [controlPoints EXCEPT ![pos + 1] = point]
            /\ ret' = [op |-> "replace", kind |-> "void"]
       ELSE /\ controlPoints' = controlPoints
            /\ ret' = [op |-> "replace", kind |-> "throw"]
    /\ knotVector' = computeUniformKnotVector(controlPoints', knotVector, degree, uniform, clamped)
    /\ UNCHANGED <<degree, uniform, clamped, writer, reader>>

\* _controlPoints.at( position ) = point; at() throws past the last element.
replaceControlPoint(pos, point) ==
    /\ pos \in 0..Len(controlPoints)
    /\ IF pos < Len(controlPoints)
       THEN /\ controlPoints' = [controlPoints EXCEPT ![pos + 1] = point]
            /\ ret' = [op |-> "replace", kind |-> "void"]
       ELSE /\ controlPoints' = controlPoints
            /\ ret' = [op |-> "replace", kind |-> "throw"]
    /\ UNCHANGED <<knotVector, degree, uniform, clamped, writer, reader>>

setDegree(n) ==
    /\ degree' = n
    /\ ret' = Void("setDegree")
    /\ UNCHANGED <<controlPoints, knotVector, uniform, clamped, writer, reader>>

setUniform(u) ==
    /\ uniform' = u
    /\ ret' = Void("setUniform")
    /\ UNCHANGED <<controlPoints, knotVector, degree, clamped, writer, reader>>

setClamped(c) ==
    /\ clamped' = c
    /\ ret' = Void("setClamped")
    /\ UNCHANGED <<controlPoints, knotVector, degree, uniform, writer, reader>>

setControlPoints(pts) ==
    /\ controlPoints' = pts
    /\ ret' = Void("setControlPoints")
    /\ UNCHANGED <<knotVector, degree, uniform, clamped, writer, reader>>

\* --------------------------------------------------------- NURBS::derivative
\* The outcome of derivative( t, d ) on the curve (cps, U, p, c).
\* DerivativeOrder returning CK[ 0 ].
DerivativeOrder_first(CK, d) == IF CK.kind # "ok" THEN CK ELSE Ok(CK.val[0])

\* return CK[ d ];
DerivativeOrder(CK, d) == IF CK.kind # "ok" THEN CK ELSE Ok(CK.val[d])

DerivativeAt(u, d, cps, U, p) ==
    IF u.kind # "ok" THEN u
    ELSE DerivativeOrder(curveDerivs(Len(cps) - 1, p, U, cps, u.val, d), d)

Derivative(t, d, cps, U, p, c) == DerivativeAt(adjustParameter(t, U, c), d, cps, U, p)

\* What a caller can observe of an outcome: undefined behaviour may crash or
\* hand back any point.
Observable(out) ==
    IF out.kind = "ub"
    THEN {[kind |-> "crash"]} \cup {Ok(VecScale(q, One)) : q \in Points}
    ELSE {out}

\* C = curve( t )
position(t) ==
    /\ \E o \in Observable(Position(t, controlPoints, knotVector, degree, clamped)) :
           ret' = [op |-> "position", kind |-> o.kind, t |-> t, out |-> o]
    /\ UNCHANGED <<controlPoints, knotVector, degree, uniform, clamped, writer, reader>>

Next ==
    \/ \E pos \in 0..MaxPoints, p \in Points : insertControlPoint(pos, p)
    \/ \E p \in Points : pushControlPoint(p)
    \/ \E pos \in 0..MaxPoints : eraseControlPoint(pos)
    \/ \E pos \in 0..MaxPoints, p \in Points : replaceControlPoint(pos, p)
    \/ \E n \in Degrees : setDegree(n)
    \/ \E u \in BOOLEAN : setUniform(u)
    \/ \E c \in BOOLEAN : setClamped(c)
    \/ \E pts \in PointSeqs : setControlPoints(pts)

\* Every sequence of calls of the mutators of Spline on one instance.
Spec == Init /\ [][Next]_vars

\* v = curve.derivative( t, d )
derivative(t, d) ==
    /\ \E o \in Observable(Derivative(t, d, controlPoints, knotVector, degree, clamped)) :
           ret' = [op |-> "derivative", kind |-> o.kind, t |-> t, d |-> d, out |-> o]
    /\ UNCHANGED <<controlPoints, knotVector, degree, uniform, clamped, writer, reader>>

\* A client that builds a curve, pushes control points, switches between the
\* clamped and the periodic form, and evaluates the curve after a change.
\* operator() and derivative are const: the outcome of a call that follows
\* another evaluation is the outcome of the same call made right after the
\* change, so the client makes every evaluation right after a change.
Changed == ret.kind = "void"

PositionNext ==
    \/ \E p \in Points : pushControlPoint(p)
    \/ \E c \in BOOLEAN : setClamped(c)
    \/ Changed /\ \E t \in Params : position(t)

PositionSpec == Init /\ [][PositionNext]_vars

EvalNext ==
    \/ \E p \in Points : pushControlPoint(p)
    \/ \E c \in BOOLEAN : setClamped(c)
    \/ Changed /\ \E t \in Params : position(t)
    \/ Changed /\ \E t \in Params, d \in Orders : derivative(t, d)

EvalSpec == Init /\ [][EvalNext]_vars

\* A client that constructs a spline of a given degree, pushes weighted
\* control points, switches between the clamped and the periodic form, and
\* takes derivatives after a change.
DerivativeNext ==
    \/ \E p \in Points : pushControlPoint(p)
    \/ \E c \in BOOLEAN : setClamped(c)
    \/ Changed /\ \E t \in Params, d \in Orders : derivative(t, d)

DerivativeSpec == InitDegree /\ [][DerivativeNext]_vars

\* Spline( int degree = 3 )
DefaultDegree == 3

\* NURBS<N> cur; the class declares no constructor, so a NURBS starts from
\* Spline( int degree = 3 ) with the default argument.
InitDefault ==
    /\ controlPoints = << >>
    /\ degree = DefaultDegree
    /\ uniform = TRUE
    /\ clamped = TRUE
    /\ knotVector = computeUniformKnotVector(<< >>, << >>, DefaultDegree, TRUE, TRUE)
    /\ ret = Void("Spline")
    /\ writer = WriterIdle
    /\ reader = ReaderIdle

\* The coordinates of the points main pushes, each with Vector's weight 1.
CurvePoints == {Pt(0, 1), Pt(1, 1)}

\* A client of NURBS as main is one: a default-constructed curve, control
\* points pushed one by one, the degree and the clamped flag set, and the
\* curve evaluated after a change.
CurveNext ==
    \/ \E p \in CurvePoints : pushControlPoint(p)
    \/ \E n \in Degrees : setDegree(n)
    \/ \E c \in BOOLEAN : setClamped(c)
    \/ Changed /\ \E t \in Params : position(t)
    \/ Changed /\ \E t \in Params, d \in Orders : derivative(t, d)

CurveSpec == InitDefault /\ [][CurveNext]_vars

\* ------------------------------------------------------- integral::Simpson
\* The callables handed to the integrator: a constant, the identity, a
\* function with a kink, and one that is 0/0 everywhere.
Integrands ==
    {[kind |-> "constant", c |-> One], [kind |-> "constant", c |-> R(-2)],
     [kind |-> "identity"], [kind |-> "kink"], [kind |-> "indeterminate"]}

\* f( x )
Apply(f, x) ==
    CASE f.kind = "constant" -> f.c
      [] f.kind = "identity" -> x
      [] f.kind = "kink" -> RAbs(RSub(x, Norm(1, 4)))
      [] f.kind = "indeterminate" -> RDiv(Zero, RSub(x, x))

\* Interval ends, accuracies and depths handed to the integrator.
Ends == {R(0), R(1), R(2)}

Accuracies == {R(-1), Zero, Norm(1, 256), One}

Depths == 0..MaxRecursionDepth

\* ( a + b ) / 2.
Midpoint(a, b) == RDiv(RAdd(a, b), R(2))

\* SimpsonRule with the weight 2 on the middle sample.
SimpsonRule_weight2(h, k, f0, fm, f1) ==
    RMul(RDiv(h, R(k)), RAdd(RAdd(f0, RMul(R(2), fm)), f1))

\* ( h / k ) * ( f0 + 4 * fm + f1 )
SimpsonRule(h, k, f0, fm, f1) ==
    RMul(RDiv(h, R(k)), RAdd(RAdd(f0, RMul(R(4), fm)), f1))

\* What one call of aux did: its arguments, S2, whether it returned without
\* recursing, the calls it made, and the value it returned.
Call(a, b, eps, S, bottom, S2, calls, val) ==
    [a |-> a, b |-> b, eps |-> eps, S |-> S, bottom |-> bottom, S2 |-> S2,
     calls |-> calls, val |-> val]

\* if ( bottom < 0 || ... ): aux_strict stops one level later.
RECURSIVE aux_strict(_, _, _, _, _, _, _, _, _)
RECURSIVE auxDecide_strict(_, _, _, _, _, _, _, _, _, _, _, _, _, _)
RECURSIVE auxSum_strict(_, _, _, _, _, _, _, _)
auxSum_strict(left, right, a, b, eps, S, bottom, S2) ==
    Call(a, b, eps, S, bottom, S2, <<left, right>>, RAdd(left.val, right.val))

auxDecide_strict(f, a, b, eps, S, fa, fb, fc, bottom, c, fd, fe, Sleft, Sright) ==
    IF bottom < 0 \/ RLe(RAbs(RSub(RAdd(Sleft, Sright), S)), RMul(R(15), eps))
    THEN Call(a, b, eps, S, bottom, RAdd(Sleft, Sright), << >>,
              RAdd(RAdd(Sleft, Sright), RDiv(RSub(RAdd(Sleft, Sright), S), R(15))))
    ELSE auxSum_strict(aux_strict(f, a, c, RDiv(eps, R(2)), Sleft, fa, fc, fd, bottom - 1),
                       aux_strict(f, c, b, RDiv(eps, R(2)), Sright, fc, fb, fe, bottom - 1),
                       a, b, eps, S, bottom, RAdd(Sleft, Sright))

aux_strict(f, a, b, eps, S, fa, fb, fc, bottom) ==
    auxDecide_strict(f, a, b, eps, S, fa, fb, fc, bottom,
                     Midpoint(a, b),
                     Apply(f, Midpoint(a, Midpoint(a, b))),
                     Apply(f, Midpoint(Midpoint(a, b), b)),
                     SimpsonRule(RSub(b, a), 12, fa, Apply(f, Midpoint(a, Midpoint(a, b))), fc),
                     SimpsonRule(RSub(b, a), 12, fc, Apply(f, Midpoint(Midpoint(a, b), b)), fb))

RECURSIVE aux(_, _, _, _, _, _, _, _, _)
RECURSIVE auxDecide(_, _, _, _, _, _, _, _, _, _, _, _, _, _)
RECURSIVE auxSum(_, _, _, _, _, _, _, _)
\* return aux( left half ) + aux( right half );
auxSum(left, right, a, b, eps, S, bottom, S2) ==
    Call(a, b, eps, S, bottom, S2, <<left, right>>, RAdd(left.val, right.val))

\* auxDecide handing eps, not eps / 2., to the two recursive calls.
auxDecide_noHalve(f, a, b, eps, S, fa, fb, fc, bottom, c, fd, fe, Sleft, Sright) ==
    IF bottom <= 0 \/ RLe(RAbs(RSub(RAdd(Sleft, Sright), S)), RMul(R(15), eps))
    THEN Call(a, b, eps, S, bottom, RAdd(Sleft, Sright), << >>,
              RAdd(RAdd(Sleft, Sright), RDiv(RSub(RAdd(Sleft, Sright), S), R(15))))
    ELSE auxSum(aux(f, a, c, eps, Sleft, fa, fc, fd, bottom - 1),
                aux(f, c, b, eps, Sright, fc, fb, fe, bottom - 1),
                a, b, eps, S, bottom, RAdd(Sleft, Sright))

\* aux from the test on, with c, fd, fe, Sleft and Sright computed.
auxDecide(f, a, b, eps, S, fa, fb, fc, bottom, c, fd, fe, Sleft, Sright) ==
    IF bottom <= 0 \/ RLe(RAbs(RSub(RAdd(Sleft, Sright), S)), RMul(R(15), eps))
    THEN Call(a, b, eps, S, bottom, RAdd(Sleft, Sright), << >>,
              RAdd(RAdd(Sleft, Sright), RDiv(RSub(RAdd(Sleft, Sright), S), R(15))))
    ELSE auxSum(aux(f, a, c, RDiv(eps, R(2)), Sleft, fa, fc, fd, bottom - 1),
                aux(f, c, b, RDiv(eps, R(2)), Sright, fc, fb, fe, bottom - 1),
                a, b, eps, S, bottom, RAdd(Sleft, Sright))

aux(f, a, b, eps, S, fa, fb, fc, bottom) ==
    auxDecide(f, a, b, eps, S, fa, fb, fc, bottom,
              Midpoint(a, b),
              Apply(f, Midpoint(a, Midpoint(a, b))),
              Apply(f, Midpoint(Midpoint(a, b), b)),
              SimpsonRule(RSub(b, a), 12, fa, Apply(f, Midpoint(a, Midpoint(a, b))), fc),
              SimpsonRule(RSub(b, a), 12, fc, Apply(f, Midpoint(Midpoint(a, b), b)), fb))

\* Simpson( accuracy, max )( f, a, b ): the top call of aux.
Simpson(accuracy, max, f, a, b) ==
    aux(f, a, b, accuracy,
        SimpsonRule(RSub(b, a), 6, Apply(f, a), Apply(f, Midpoint(a, b)), Apply(f, b)),
        Apply(f, a), Apply(f, b), Apply(f, Midpoint(a, b)), max)

\* r = Simpson( accuracy, max )( f, a, b )
integrate(accuracy, max, f, a, b) ==
    /\ ret' = [op |-> "integrate", kind |-> "ok", accuracy |-> accuracy, max |-> max,
               f |-> f, a |-> a, b |-> b, out |-> Simpson(accuracy, max, f, a, b)]
    /\ UNCHANGED <<controlPoints, knotVector, degree, uniform, clamped, writer, reader>>

\* A client that builds an integrator and integrates a callable with it, as
\* Parametric::length does with its temporary Simpson.
SimpsonNext ==
    Changed /\ \E accuracy \in Accuracies, max \in Depths, f \in Integrands, a \in Ends, b \in Ends :
                  integrate(accuracy, max, f, a, b)

SimpsonSpec == InitDefault /\ [][SimpsonNext]_vars

\* ------------------------------------- a mutation interleaved with a query
\* One thread calls pushControlPoint while another calls operator() or
\* derivative on the same instance. The class holds no lock, so the calls
\* interleave statement by statement. writer and reader hold the position
\* and the locals of the two calls; ret holds what the query returned and is
\* pending while it runs.
\* The control point the writer pushes.
PushedPoint == Pt(3, 2)

\* _controlPoints.push_back( point );
pushBack(point) ==
    /\ writer.pc = "idle"
    /\ Len(controlPoints) < MaxPoints
    /\ controlPoints' = Append(controlPoints, point)
    /\ writer' = [writer EXCEPT !.pc = "pushed"]
    /\ reader' = IF reader.pc = "idle" THEN reader ELSE [reader EXCEPT !.raced = TRUE]
    /\ UNCHANGED <<knotVector, degree, uniform, clamped, ret>>

\* computeUniformKnotVector() up to _knotVector.clear(): the early return of
\* a non-uniform spline, the locals numPoints and numKnots, the clear.
clearKnots ==
    /\ writer.pc = "pushed"
    /\ IF ~uniform
       THEN /\ writer' = WriterIdle
            /\ knotVector' = knotVector
       ELSE /\ writer' = [pc |-> "fill", numPoints |-> Len(controlPoints),
                          numKnots |-> Len(controlPoints) + degree + 1]
            /\ knotVector' = << >>
    /\ reader' = IF reader.pc = "idle" THEN reader ELSE [reader EXCEPT !.raced = TRUE]
    /\ UNCHANGED <<controlPoints, degree, uniform, clamped, ret>>

\* pushKnot returning from computeUniformKnotVector one knot early.
pushKnot_short ==
    /\ writer.pc = "fill"
    /\ knotVector' = Append(knotVector,
                            GenerateKnots(writer.numPoints, degree, clamped)[Len(knotVector) + 1])
    /\ writer' = IF Len(knotVector') >= writer.numKnots - 1 THEN WriterIdle ELSE writer
    /\ reader' = IF reader.pc = "idle" THEN reader ELSE [reader EXCEPT !.raced = TRUE]
    /\ UNCHANGED <<controlPoints, degree, uniform, clamped, ret>>

\* One _knotVector.push_back of the loops of computeUniformKnotVector: the
\* knot pushed at index i is the knot the loops give that index. The call
\* returns after the last one.
pushKnot ==
    /\ writer.pc = "fill"
    /\ knotVector' = Append(knotVector,
                            GenerateKnots(writer.numPoints, degree, clamped)[Len(knotVector) + 1])
    /\ writer' = IF Len(knotVector') >= writer.numKnots THEN WriterIdle ELSE writer
    /\ reader' = IF reader.pc = "idle" THEN reader ELSE [reader EXCEPT !.raced = TRUE]
    /\ UNCHANGED <<controlPoints, degree, uniform, clamped, ret>>

\* The calls the reader makes: operator()( t ) and derivative( t, d ).
Queries ==
    {[op |-> "position", t |-> t, d |-> 0] : t \in Params}
        \cup {[op |-> "derivative", t |-> t, d |-> d] : t \in Params, d \in Orders}

\* p = getDegree(); n = controlPoints().size() - 1; raced records that a
\* step of pushControlPoint ran, or was pending, during the query.
readSize(q) ==
    /\ reader.pc = "idle"
    /\ reader' = [pc |-> "sized", q |-> q, p |-> degree, n |-> Len(controlPoints) - 1,
                  u |-> Ok(q.t), raced |-> writer.pc # "idle"]
    /\ ret' = [op |-> q.op, kind |-> "pending"]
    /\ UNCHANGED <<controlPoints, knotVector, degree, uniform, clamped, writer>>

\* adjustParameter( u );
readDomain ==
    /\ reader.pc = "sized"
    /\ reader' = [reader EXCEPT !.pc = "adjusted",
                                !.u = adjustParameter(reader.q.t, knotVector, clamped),
                                !.raced = reader.raced \/ writer.pc # "idle"]
    /\ UNCHANGED <<controlPoints, knotVector, degree, uniform, clamped, ret, writer>>

\* curvePoint or curveDerivs with the n and p read before, on the knots and
\* the control points as they are now.
Evaluated(r) ==
    IF r.u.kind # "ok" THEN r.u
    ELSE IF r.q.op = "position"
    THEN curvePoint(r.n, r.p, knotVector, controlPoints, r.u.val)
    ELSE DerivativeOrder(curveDerivs(r.n, r.p, knotVector, controlPoints, r.u.val, r.q.d),
                         r.q.d)

\* What the query can return: a query that raced with the mutation has read
\* storage while it was written, which is undefined.
RaceOutcomes(out, raced) ==
    IF raced THEN Observable(Undefined) \cup Observable(out) ELSE Observable(out)

\* curvePoint( n, p, _knotVector, _controlPoints, u, C ); return C; and the
\* same with curveDerivs. seen is the number of control points the query
\* read and the number of knots it evaluated with.
readCurve ==
    /\ reader.pc = "adjusted"
    /\ \E o \in RaceOutcomes(Evaluated(reader), reader.raced \/ writer.pc # "idle") :
           ret' = [op |-> reader.q.op, kind |-> o.kind, t |-> reader.q.t, d |-> reader.q.d,
                   out |-> o, raced |-> reader.raced \/ writer.pc # "idle",
                   seen |-> [numControlPoints |-> reader.n + 1, degree |-> reader.p,
                             numKnots |-> Len(knotVector)]]
    /\ reader' = ReaderIdle
    /\ UNCHANGED <<controlPoints, knotVector, degree, uniform, clamped, writer>>

RaceNext ==
    \/ pushBack(PushedPoint)
    \/ clearKnots
    \/ pushKnot
    \/ \E q \in Queries : readSize(q)
    \/ readDomain
    \/ readCurve

RaceSpec == InitDegree /\ [][RaceNext]_vars

TypeOK ==
    /\ controlPoints \in PointSeqs
    /\ degree \in Degrees
    /\ uniform \in BOOLEAN
    /\ clamped \in BOOLEAN
\* =================================================================== claims
numControlPoints == Len(controlPoints)

numKnots == Len(knotVector)

\* The last call regenerated the knots of a uniform spline: a constructor or
\* a structural mutator ran computeUniformKnotVector with _uniform set.
Regenerated == ret.op \in {"Spline", "push", "insert", "erase"} /\ uniform

\* 0-based knot, as the source indexes it.
Knot(i) == knotVector[i + 1]

\* C1: on a uniform spline, right after pushControlPoint, insertControlPoint
\* or eraseControlPoint the knot vector has numControlPoints + degree + 1
\* entries.
C1_KnotCountAfterStructuralMutation ==
    (ret.op \in {"push", "insert", "erase"} /\ uniform)
        => numKnots = numControlPoints + degree + 1

\* C1 witness: a push on a uniform spline that has fewer control points than
\* degree + 1.
C1_Witness ==
    ret.op = "push" /\ uniform /\ numControlPoints = 2 /\ degree = 2 /\ numKnots = 5

\* C2 (as claimed): in every reachable state of a uniform spline the knot
\* vector has numControlPoints + degree + 1 entries.
C2_KnotCountAlways == uniform => numKnots = numControlPoints + degree + 1

\* C3 (as claimed): right after setUniform(true) or setClamped(c) the knot
\* vector is the one the generation rule gives for the current control-point
\* count, degree and clamped flag.
C3_ImmediateRegeneration ==
    (ret.op \in {"setUniform", "setClamped"} /\ uniform)
        => knotVector = GenerateKnots(numControlPoints, degree, clamped)

\* C4: a replaceControlPoint step changes at most the control point at pos;
\* the knot vector, the number of control points, the degree and both flags
\* stay as they were.
C4_ReplaceFrame ==
    [][ret'.op = "replace" =>
          /\ knotVector' = knotVector
          /\ Len(controlPoints') = Len(controlPoints)
          /\ degree' = degree
          /\ uniform' = uniform
          /\ clamped' = clamped
          /\ \E pos \in 0..Len(controlPoints) :
                 \A i \in 1..Len(controlPoints) :
                     i # pos + 1 => controlPoints'[i] = controlPoints[i]]_vars

\* C4 witness: a replace went through on a uniform spline whose knot vector
\* a regeneration would have changed.
C4_Witness ==
    /\ ret.op = "replace"
    /\ ret.kind = "void"
    /\ uniform
    /\ numControlPoints >= 2
    /\ knotVector # GenerateKnots(numControlPoints, degree, clamped)

\* C5: the regenerated knot vector of a uniform clamped spline with
\* n >= d + 1 control points has k = n + d + 1 entries, knots[0..d] = 0,
\* knots[k-d-1..k-1] = 1 and knots[i] = (i - d)/(n - d) for d < i <= n - 1;
\* degree 3 with 4 control points gives [0,0,0,0,1,1,1,1].
C5_ClampedKnots ==
    /\ (Regenerated /\ clamped /\ numControlPoints >= degree + 1) =>
          LET n == numControlPoints
              d == degree
              k == n + d + 1
          IN  /\ numKnots = k
              /\ \A i \in 0..d : Knot(i) = Zero
              /\ \A i \in (k - d - 1)..(k - 1) : Knot(i) = One
              /\ \A i \in (d + 1)..(n - 1) : Knot(i) = Norm(i - d, n - d)
    /\ GenerateKnots(4, 3, TRUE) = <<Zero, Zero, Zero, Zero, One, One, One, One>>

\* C5 witness: a regenerated clamped knot vector with an interior knot.
C5_Witness ==
    /\ Regenerated
    /\ ret.op = "insert"
    /\ clamped
    /\ degree = 1
    /\ numControlPoints = 3
    /\ knotVector = <<Zero, Zero, Norm(1, 2), One, One>>

StrictlyIncreasing(U) == \A i \in 1..(Len(U) - 1) : RLt(U[i], U[i + 1])

\* C6 (as claimed): the regenerated knot vector of a uniform non-clamped
\* spline has knots[i] = i/(k-1) for every i, starts at 0, ends at 1 and is
\* strictly increasing.
C6_OpenKnotsAsClaimed ==
    (Regenerated /\ ~clamped) =>
        LET k == numControlPoints + degree + 1
        IN  /\ numKnots = k
            /\ \A i \in 0..(k - 1) : Knot(i) = Norm(i, k - 1)
            /\ Knot(0) = Zero
            /\ Knot(k - 1) = One
            /\ StrictlyIncreasing(knotVector)

\* C6 (amended): with k >= 2 the regenerated knot vector of a uniform
\* non-clamped spline has knots[i] = i/(k-1) for every i, starts at 0, ends
\* at 1 and is strictly increasing; with k = 1 its only knot is 0/0, a NaN.
C6_OpenKnots ==
    (Regenerated /\ ~clamped) =>
        LET k == numControlPoints + degree + 1
        IN  /\ numKnots = k
            /\ k >= 2 =>
                  /\ \A i \in 0..(k - 1) : Knot(i) = RDiv(R(i), R(k - 1))
                  /\ \A i \in 0..(k - 1) : IsFinite(Knot(i))
                  /\ Knot(0) = Zero
                  /\ Knot(k - 1) = One
                  /\ StrictlyIncreasing(knotVector)
            /\ k = 1 => knotVector = <<NaN>>

\* C6 witness: a regenerated non-clamped knot vector with interior knots.
C6_Witness ==
    /\ Regenerated
    /\ ~clamped
    /\ numControlPoints = 2
    /\ degree = 1
    /\ knotVector = <<Zero, Norm(1, 3), Norm(2, 3), One>>
\* ------------------------------------------------------- evaluator claims
\* The configuration the evaluator is specified for: enough control points,
\* a knot vector of the matching length, non-decreasing.
ValidConfig ==
    /\ numControlPoints >= degree + 1
    /\ numKnots = numControlPoints + degree + 1
    /\ NonDecreasing(knotVector)

\* Parameters the claims are checked at: the parameters of the calls, every
\* knot, and the midpoint of every two neighbouring knots.
Probes ==
    Params
        \cup {knotVector[i] : i \in 1..numKnots}
        \cup {RDiv(RAdd(knotVector[i], knotVector[i + 1]), R(2)) : i \in 1..(numKnots - 1)}

\* findSpan as operator() and derivative call it on this curve.
SpanOf(u) == findSpan(numControlPoints - 1, degree, u, knotVector)

\* C7 (as claimed): on a valid configuration findSpan returns a value in
\* [degree, numControlPoints-1], degree when u <= knots[degree], and
\* numControlPoints-1 when u >= knots[numControlPoints].
C7_SpanRangeAsClaimed ==
    ValidConfig =>
        \A u \in Probes :
            LET s == SpanOf(u)
            IN  /\ s.kind = "ok"
                /\ degree <= s.val /\ s.val <= numControlPoints - 1
                /\ RLe(u, Knot(degree)) => s.val = degree
                /\ RGe(u, Knot(numControlPoints)) => s.val = numControlPoints - 1

\* C7 (amended): on a valid configuration findSpan returns a value in
\* [degree, numControlPoints-1], degree when u <= knots[degree], and
\* numControlPoints-1 when u >= knots[numControlPoints] and u > knots[degree].
C7_SpanRange ==
    ValidConfig =>
        \A u \in Probes :
            LET s == SpanOf(u)
            IN  /\ s.kind = "ok"
                /\ degree <= s.val /\ s.val <= numControlPoints - 1
                /\ RLe(u, Knot(degree)) => s.val = degree
                /\ (RGe(u, Knot(numControlPoints)) /\ RLt(Knot(degree), u))
                       => s.val = numControlPoints - 1

\* C7 witness: operator() ran on a valid configuration with more control
\* points than degree + 1 at a parameter at or beyond the last domain knot,
\* where findSpan snaps to numControlPoints - 1.
C7_Witness ==
    /\ ret.op = "position"
    /\ ret.kind = "ok"
    /\ ValidConfig
    /\ numControlPoints > degree + 1
    /\ RGe(ret.t, Knot(numControlPoints))
    /\ RLt(Knot(degree), Knot(numControlPoints))
    /\ SpanOf(ret.t) = Ok(numControlPoints - 1)

\* C8: on a valid configuration findSpan is non-decreasing in u.
C8_SpanMonotonic ==
    ValidConfig =>
        \A u1, u2 \in Probes :
            RLe(u1, u2) =>
                /\ SpanOf(u1).kind = "ok"
                /\ SpanOf(u2).kind = "ok"
                /\ SpanOf(u1).val <= SpanOf(u2).val

\* C8 witness: operator() ran on a valid configuration with a repeated
\* interior knot and three different spans over the probes.
C8_Witness ==
    /\ ret.op = "position"
    /\ ValidConfig
    /\ \E i \in (degree + 1)..(numControlPoints - 1) : Knot(i) = Knot(i + 1) \/ Knot(i) = Knot(i - 1)
    /\ \E u1, u2 \in Probes : RLt(u1, u2) /\ SpanOf(u1).val < SpanOf(u2).val

IsInteger(a) == a[2] = 1

\* C9: on a clamped curve the adjusted parameter is u clamped into
\* [minKnot, maxKnot]; on a non-clamped curve with maxKnot > minKnot it lies
\* in [minKnot, maxKnot) and differs from u by an integer multiple of
\* maxKnot - minKnot.
C9_DomainAdjustment ==
    (numKnots > 0 /\ RLe(knotVector[1], knotVector[numKnots])) =>
        LET minKnot == knotVector[1]
            maxKnot == knotVector[numKnots]
        IN  \A u \in Probes :
                LET a == adjustParameter(u, knotVector, clamped)
                IN  IF clamped
                    THEN a = Ok(IF RLt(u, minKnot) THEN minKnot
                                ELSE IF RLt(maxKnot, u) THEN maxKnot ELSE u)
                    ELSE RLt(minKnot, maxKnot) =>
                             /\ a.kind = "ok"
                             /\ RLe(minKnot, a.val)
                             /\ RLt(a.val, maxKnot)
                             /\ IsInteger(RDiv(RSub(a.val, u), RSub(maxKnot, minKnot)))

\* C9 witness: operator() ran on a non-clamped curve at a parameter beyond
\* the last knot, which the adjustment wraps back into the domain.
C9_Witness ==
    /\ ret.op = "position"
    /\ ~clamped
    /\ numKnots > 0
    /\ RLt(knotVector[1], knotVector[numKnots])
    /\ RLt(knotVector[numKnots], ret.t)
    /\ adjustParameter(ret.t, knotVector, clamped).kind = "ok"
    /\ adjustParameter(ret.t, knotVector, clamped).val # ret.t
\* C10: on a non-clamped curve operator()( t ) and derivative( t, d ) have
\* the same outcome, and return the same point, at t and at t + domainWidth,
\* where domainWidth = knots.back() - knots.front().
C10_Periodicity ==
    (ret.op \in {"position", "derivative"} /\ ~clamped /\ numKnots > 0) =>
        LET domainWidth == RSub(knotVector[numKnots], knotVector[1])
            shifted ==
                IF ret.op = "position"
                THEN Position(RAdd(ret.t, domainWidth), controlPoints, knotVector, degree, clamped)
                ELSE Derivative(RAdd(ret.t, domainWidth), ret.d,
                                controlPoints, knotVector, degree, clamped)
        IN  shifted.kind = "ub" \/ ret.out = shifted

\* C10 witness: a first derivative that is not zero, returned on a valid
\* non-clamped curve at a parameter below the first knot.
C10_Witness ==
    /\ ret.op = "derivative"
    /\ ret.kind = "ok"
    /\ ret.d = 1
    /\ ~clamped
    /\ ValidConfig
    /\ RLt(ret.t, knotVector[1])
    /\ RLt(knotVector[1], knotVector[numKnots])
    /\ ret.out.val.x # Zero
\* ------------------------------------------------------ NURBS client claims
UnitWeights(pts) == \A i \in 1..Len(pts) : pts[i].w = One

\* A clamped curve with unit weights, at least degree + 1 control points
\* and the knot vector the generation rule gives for it.
ClampedUnitCurve ==
    /\ clamped
    /\ UnitWeights(controlPoints)
    /\ numControlPoints >= degree + 1
    /\ knotVector = GenerateKnots(numControlPoints, degree, TRUE)

\* The curve of main: degree 3 and the x coordinates 0, 1, 1, 0, or the y
\* coordinates 0, 0, 1, 1, of its four control points.
MainX == <<Pt(0, 1), Pt(1, 1), Pt(1, 1), Pt(0, 1)>>

MainY == <<Pt(0, 1), Pt(0, 1), Pt(1, 1), Pt(1, 1)>>

\* position(0) = (0,0) and position(1) = (0,1) on the curve of main.
MainEndpoints ==
    /\ Position(Zero, MainX, GenerateKnots(4, 3, TRUE), 3, TRUE) = Ok(Pt(0, 1))
    /\ Position(Zero, MainY, GenerateKnots(4, 3, TRUE), 3, TRUE) = Ok(Pt(0, 1))
    /\ Position(One, MainX, GenerateKnots(4, 3, TRUE), 3, TRUE) = Ok(Pt(0, 1))
    /\ Position(One, MainY, GenerateKnots(4, 3, TRUE), 3, TRUE) = Ok(Pt(1, 1))

\* C11: on a clamped unit-weight curve with numControlPoints >= degree + 1
\* and generated knots, operator() returns the first control point at
\* knots.front() and the last control point at knots.back(); on the curve
\* of main position(0) = (0,0) and position(1) = (0,1).
C11_EndpointInterpolation ==
    /\ ClampedUnitCurve =>
          /\ Position(knotVector[1], controlPoints, knotVector, degree, clamped)
                 = Ok(controlPoints[1])
          /\ Position(knotVector[numKnots], controlPoints, knotVector, degree, clamped)
                 = Ok(controlPoints[numControlPoints])
    /\ (ClampedUnitCurve /\ ret.op = "position" /\ ret.t = knotVector[1])
          => ret.out = Ok(controlPoints[1])
    /\ (ClampedUnitCurve /\ ret.op = "position" /\ ret.t = knotVector[numKnots])
          => ret.out = Ok(controlPoints[numControlPoints])
    /\ MainEndpoints

\* C11 witness: operator() ran at knots.back() on the degree-3 curve of main
\* (its y coordinates) and returned the last control point, which is not
\* the first.
C11_Witness ==
    /\ ret.op = "position"
    /\ ClampedUnitCurve
    /\ degree = 3
    /\ controlPoints = MainY
    /\ ret.t = knotVector[numKnots]
    /\ ret.out = Ok(Pt(1, 1))
\* --------------------------------------------------- evaluator value claims
\* The parameter, the span and the basis values operator()( ret.t ) works
\* with on this curve.
AdjustedOf(t) == adjustParameter(t, knotVector, clamped).val

BasisOf(u) == basisFuns(SpanOf(u).val, u, degree, knotVector).val

\* The control point that goes with the j-th basis value of a span.
Influencing(span, j) == controlPoints[span - degree + j + 1]

\* sum over j of P[span-p+j] * w[span-p+j] * N[j]
RECURSIVE HomogeneousSum(_, _, _)
HomogeneousSum(span, N, j) ==
    IF j > degree THEN Zero
    ELSE RAdd(RMul(RMul(Influencing(span, j).x, Influencing(span, j).w), N[j]),
              HomogeneousSum(span, N, j + 1))

\* sum over j of w[span-p+j] * N[j]
RECURSIVE WeightSum(_, _, _)
WeightSum(span, N, j) ==
    IF j > degree THEN Zero
    ELSE RAdd(RMul(Influencing(span, j).w, N[j]), WeightSum(span, N, j + 1))

\* A valid configuration whose domain adjustParameter resolves.
Evaluable ==
    /\ ValidConfig
    /\ clamped \/ RLt(knotVector[1], knotVector[numKnots])

\* C12 (as claimed): the point operator()( t ) returns on a valid
\* configuration is the homogeneous sum divided by the sum of w * N, for
\* any non-zero weights.
C12_Dehomogenization ==
    (ret.op = "position" /\ Evaluable) =>
        /\ ret.kind = "ok"
        /\ ret.out.val.x =
               RDiv(HomogeneousSum(SpanOf(AdjustedOf(ret.t)).val, BasisOf(AdjustedOf(ret.t)), 0),
                    WeightSum(SpanOf(AdjustedOf(ret.t)).val, BasisOf(AdjustedOf(ret.t)), 0))

RECURSIVE BasisSum(_, _)
BasisSum(N, j) == IF j > degree THEN Zero ELSE RAdd(N[j], BasisSum(N, j + 1))

\* The basis values at u are non-negative and sum to 1.
PartitionOfUnity(u) ==
    /\ basisFuns(SpanOf(u).val, u, degree, knotVector).kind = "ok"
    /\ \A j \in 0..degree : RLe(Zero, BasisOf(u)[j])
    /\ BasisSum(BasisOf(u), 0) = One

\* u lies in the span findSpan returns for it.
InsideSpan(u) ==
    /\ SpanOf(u).kind = "ok"
    /\ RLe(Knot(SpanOf(u).val), u)
    /\ RLe(u, Knot(SpanOf(u).val + 1))

\* C13 (as claimed): on a valid configuration, for every u inside the span
\* findSpan returns, the values N[0..p] of basisFuns are non-negative and
\* sum to 1.
C13_PartitionOfUnityAsClaimed ==
    ValidConfig => \A u \in Probes : InsideSpan(u) => PartitionOfUnity(u)

\* C13 (amended): on a valid configuration, for every u inside the span
\* findSpan returns, when that span is not empty (knots[span] <
\* knots[span+1]), the values N[0..p] of basisFuns are non-negative and sum
\* to 1.
C13_PartitionOfUnity ==
    ValidConfig =>
        \A u \in Probes :
            (InsideSpan(u) /\ RLt(Knot(SpanOf(u).val), Knot(SpanOf(u).val + 1)))
                => PartitionOfUnity(u)

\* C13 witness: operator() ran on a valid degree-2 curve at a parameter
\* strictly inside its span, where all three basis values are positive.
C13_Witness ==
    /\ ret.op = "position"
    /\ ret.kind = "ok"
    /\ ValidConfig
    /\ degree = 2
    /\ InsideSpan(ret.t)
    /\ RLt(Knot(SpanOf(ret.t).val), ret.t)
    /\ RLt(ret.t, Knot(SpanOf(ret.t).val + 1))
    /\ \A j \in 0..degree : RLt(Zero, BasisOf(ret.t)[j])

\* The reference Cox-de Boor basis function N(i, q) at u, as the polynomial
\* of the span: N(i, 0) is 1 for i = span and 0 otherwise, and a term with
\* a zero denominator is 0.
RECURSIVE RefBasis(_, _, _, _)
RefBasis(i, q, u, span) ==
    IF q = 0 THEN (IF i = span THEN One ELSE Zero)
    ELSE RAdd(IF Knot(i + q) = Knot(i) THEN Zero
              ELSE RMul(RDiv(RSub(u, Knot(i)), RSub(Knot(i + q), Knot(i))),
                        RefBasis(i, q - 1, u, span)),
              IF Knot(i + q + 1) = Knot(i + 1) THEN Zero
              ELSE RMul(RDiv(RSub(Knot(i + q + 1), u), RSub(Knot(i + q + 1), Knot(i + 1))),
                        RefBasis(i + 1, q - 1, u, span)))

\* The k-th derivative of N(i, q) at u:
\* q * ( N(i, q-1)^(k-1) / (U[i+q] - U[i]) - N(i+1, q-1)^(k-1) / (U[i+q+1] - U[i+1]) ).
RECURSIVE RefDeriv(_, _, _, _, _)
RefDeriv(i, q, k, u, span) ==
    IF k = 0 THEN RefBasis(i, q, u, span)
    ELSE IF q = 0 THEN Zero
    ELSE RMul(R(q),
              RSub(IF Knot(i + q) = Knot(i) THEN Zero
                   ELSE RDiv(RefDeriv(i, q - 1, k - 1, u, span), RSub(Knot(i + q), Knot(i))),
                   IF Knot(i + q + 1) = Knot(i + 1) THEN Zero
                   ELSE RDiv(RefDeriv(i + 1, q - 1, k - 1, u, span),
                             RSub(Knot(i + q + 1), Knot(i + 1)))))

\* sum over j of P[span-p+j] * D(k, j)
RECURSIVE RefDerivSum(_, _, _, _)
RefDerivSum(span, k, u, j) ==
    IF j > degree THEN Zero
    ELSE RAdd(RMul(Influencing(span, j).x, RefDeriv(span - degree + j, degree, k, u, span)),
              RefDerivSum(span, k, u, j + 1))

\* C14 (as claimed): on a valid unit-weight curve derivative( t, k ) with
\* 0 <= k <= degree returns the sum over j of P[span-p+j] times the k-th
\* derivative of the j-th non-zero basis function, for every pair (k, p).
C14_DerivativeIsReference ==
    (ret.op = "derivative" /\ Evaluable /\ UnitWeights(controlPoints) /\ ret.d <= degree) =>
        /\ ret.kind = "ok"
        /\ ret.out.val.x =
               RefDerivSum(SpanOf(AdjustedOf(ret.t)).val, ret.d, AdjustedOf(ret.t), 0)

\* C15: derivative( t, k ) with k > degree returns the zero vector whenever
\* it returns, and it returns on every valid configuration whose domain
\* adjustParameter resolves.
C15_HighOrderIsZero ==
    (ret.op = "derivative" /\ ret.d > degree) =>
        /\ Derivative(ret.t, ret.d, controlPoints, knotVector, degree, clamped).kind = "ok"
               => ret.out = Ok(VecOrigin)
        /\ Evaluable => ret.out = Ok(VecOrigin)

\* C15 witness: the second derivative of a degree-1 curve whose first
\* derivative at the same parameter is not zero.
C15_Witness ==
    /\ ret.op = "derivative"
    /\ ret.d = 2
    /\ degree = 1
    /\ Evaluable
    /\ ret.out = Ok(VecOrigin)
    /\ Derivative(ret.t, 1, controlPoints, knotVector, degree, clamped).val.x # Zero
    /\ Position(ret.t, controlPoints, knotVector, degree, clamped).val.x # Zero
\* ---------------------------------------------------------- Simpson claims
RECURSIVE Pow2(_)
Pow2(n) == IF n = 0 THEN 1 ELSE 2 * Pow2(n - 1)

Max(a, b) == IF a < b THEN b ELSE a

\* The number of calls of aux that returned without recursing.
RECURSIVE Leaves(_)
Leaves(call) ==
    IF call.calls = << >> THEN 1 ELSE Leaves(call.calls[1]) + Leaves(call.calls[2])

\* The number of levels of recursion below a call of aux.
RECURSIVE Levels(_)
Levels(call) ==
    IF call.calls = << >> THEN 0
    ELSE 1 + Max(Levels(call.calls[1]), Levels(call.calls[2]))

\* C16: a call of the integrator with max depth D >= 0 returns, for every
\* integrand, interval and accuracy (accuracy <= 0 included); the recursion
\* goes at most D levels below the first call of aux and at most 2^D calls
\* return without recursing.
C16_BoundedRecursion ==
    (ret.op = "integrate" /\ ret.max >= 0) =>
        /\ Levels(ret.out) <= ret.max
        /\ Leaves(ret.out) <= Pow2(ret.max)

\* C16 witness: with accuracy 0 and an integrand that never meets the
\* error test the recursion reaches MaxRecursionDepth levels and
\* 2^MaxRecursionDepth leaves.
C16_Witness ==
    /\ ret.op = "integrate"
    /\ ret.accuracy = Zero
    /\ ret.max = MaxRecursionDepth
    /\ Levels(ret.out) = ret.max
    /\ Leaves(ret.out) = Pow2(ret.max)

\* A call of aux j levels below the first one did what the claim says, and
\* so did the calls below it.
RECURSIVE AsSpecified(_, _, _, _)
AsSpecified(call, j, accuracy, max) ==
    /\ call.eps = RDiv(accuracy, R(Pow2(j)))
    /\ call.bottom = max - j
    /\ (call.calls = << >>) <=>
          (RLe(RAbs(RSub(call.S2, call.S)), RMul(R(15), call.eps)) \/ call.bottom <= 0)
    /\ call.calls = << >> =>
          call.val = RAdd(call.S2, RDiv(RSub(call.S2, call.S), R(15)))
    /\ call.calls # << >> =>
          /\ Len(call.calls) = 2
          /\ call.val = RAdd(call.calls[1].val, call.calls[2].val)
          /\ call.calls[1].a = call.a
          /\ call.calls[1].b = Midpoint(call.a, call.b)
          /\ call.calls[2].a = Midpoint(call.a, call.b)
          /\ call.calls[2].b = call.b
          /\ AsSpecified(call.calls[1], j + 1, accuracy, max)
          /\ AsSpecified(call.calls[2], j + 1, accuracy, max)

\* C17: every call of aux returns S2 + (S2 - S)/15 without recursing
\* exactly when |S2 - S| <= 15*eps or bottom <= 0, and otherwise the sum of
\* the results of the two halves; a call j levels below the first uses
\* accuracy/2^j and max - j.
C17_NodeRule == ret.op = "integrate" => AsSpecified(ret.out, 0, ret.accuracy, ret.max)

\* C17 witness: a call in which one half was accepted on its error
\* estimate, with depth left, and the other half recursed.
C17_Witness ==
    /\ ret.op = "integrate"
    /\ ret.accuracy = Norm(1, 256)
    /\ ret.out.calls # << >>
    /\ \E i, k \in 1..2 :
           /\ ret.out.calls[i].calls = << >>
           /\ ret.out.calls[i].bottom > 0
           /\ ret.out.calls[k].calls # << >>

\* c * ( b - a )
ConstantIntegral(f, a, b) == RMul(f.c, RSub(b, a))

\* C18 (as claimed): for a constant integrand the integrator returns
\* c*(b-a) from the first call of aux, without a recursive call; the
\* integral of x over [0,2] is within the accuracy of 2.
C18_ExactCasesAsClaimed ==
    /\ (ret.op = "integrate" /\ ret.f.kind = "constant") =>
          /\ ret.out.calls = << >>
          /\ ret.out.val = ConstantIntegral(ret.f, ret.a, ret.b)
    /\ (ret.op = "integrate" /\ ret.f.kind = "identity" /\ ret.a = R(0) /\ ret.b = R(2)) =>
          RLe(RAbs(RSub(ret.out.val, R(2))), ret.accuracy)

\* C18 (amended): for a constant integrand the integrator returns c*(b-a),
\* and with an accuracy >= 0 it does so from the first call of aux, without
\* a recursive call; with an accuracy >= 0 the integral of x over [0,2] is
\* within the accuracy of 2, and it is 2 for every accuracy.
C18_ExactCases ==
    /\ (ret.op = "integrate" /\ ret.f.kind = "constant") =>
          /\ RLe(Zero, ret.accuracy) => ret.out.calls = << >>
          /\ ret.out.val = ConstantIntegral(ret.f, ret.a, ret.b)
    /\ (ret.op = "integrate" /\ ret.f.kind = "identity" /\ ret.a = R(0) /\ ret.b = R(2)) =>
          /\ RLe(Zero, ret.accuracy) => RLe(RAbs(RSub(ret.out.val, R(2))), ret.accuracy)
          /\ ret.out.val = R(2)

\* C18 witness: the integral of 1 over [0,1] with accuracy 0 and depth left
\* is 1, returned by the first call of aux.
C18_Witness ==
    /\ ret.op = "integrate"
    /\ ret.f = [kind |-> "constant", c |-> One]
    /\ ret.a = R(0)
    /\ ret.b = R(1)
    /\ ret.accuracy = Zero
    /\ ret.max = MaxRecursionDepth
    /\ ret.out.calls = << >>
    /\ ret.out.val = One
\* ------------------------------------------------------ error-outcome claims
\* The configuration is one the evaluator is not specified for.
InvalidConfig ==
    \/ degree > numControlPoints - 1
    \/ numKnots = 0
    \/ numKnots # numControlPoints + degree + 1

\* What the last evaluation did, before anything undefined is observed.
Outcome ==
    IF ret.op = "position"
    THEN Position(ret.t, controlPoints, knotVector, degree, clamped)
    ELSE Derivative(ret.t, ret.d, controlPoints, knotVector, degree, clamped)

\* C19 (as claimed): on an invalid configuration operator() and derivative
\* end in an error (here: the exception of vector::at), return no point and
\* read no control point or knot outside the valid range.
C19_InvalidConfigurationIsAnError ==
    (ret.op \in {"position", "derivative"} /\ InvalidConfig) => Outcome.kind = "throw"

\* The domain of a non-clamped curve has no width.
ZeroWidthDomain == ~clamped /\ numKnots > 0 /\ knotVector[1] = knotVector[numKnots]

\* C20 (as claimed): on a non-clamped curve with a zero-width domain a
\* parameter outside the domain makes adjustParameter end in an error; the
\* wrap loops end for every parameter and every knot vector.
C20_ZeroWidthIsAnError ==
    ret.op \in {"position", "derivative"} =>
        /\ adjustParameter(ret.t, knotVector, clamped).kind # "loop"
        /\ (ZeroWidthDomain /\ ret.t # knotVector[1])
               => adjustParameter(ret.t, knotVector, clamped).kind = "throw"
\* -------------------------------------------------- derivative table claims
\* The cells (k, j) of the table curveDerivs allocates for derivative( t, d )
\* on a curve of degree p: 0 <= k <= d and 0 <= j <= p.
Cells(d, p) == (0..d) \X (0..p)

\* Writing v to the cell c of M leaves the cell e as it was.
Untouched(M, c, e, v) ==
    MatrixGet(MatrixSet(M, c[1], c[2], v), e[1], e[2]) = MatrixGet(M, e[1], e[2])

\* C21 (as claimed): in the (d+1) x (p+1) table of derivative( t, d ) the
\* cells map to offsets inside the allocation, distinct cells map to
\* distinct offsets, and writing a cell of row k changes no value of another
\* row, for every d and p. The table is the one of a call that reaches
\* curveDerivs on a valid configuration.
C21_DistinctCells ==
    (ret.op = "derivative" /\ Evaluable) =>
        \A c \in Cells(ret.d, degree), e \in Cells(ret.d, degree) :
            /\ Offset(Matrix(ret.d + 1, degree + 1), c[1], c[2])
                   \in DOMAIN Matrix(ret.d + 1, degree + 1).data
            /\ c # e => Offset(Matrix(ret.d + 1, degree + 1), c[1], c[2])
                            # Offset(Matrix(ret.d + 1, degree + 1), e[1], e[2])
            /\ c[1] # e[1] => Untouched(Matrix(ret.d + 1, degree + 1), c, e, One)
\* ------------------------------------------------------ span search claims
\* u lies strictly inside the domain of the curve.
StrictlyInside(u) == RLt(Knot(degree), u) /\ RLt(u, Knot(numControlPoints))

\* C22: for a non-decreasing knot vector and any u with
\* knots[degree] < u < knots[numControlPoints], the binary search of findSpan
\* ends and returns the index i with knots[i] <= u < knots[i+1].
C22_BinarySearch ==
    (NonDecreasing(knotVector) /\ numKnots > numControlPoints /\ numKnots > degree) =>
        \A u \in Probes :
            StrictlyInside(u) =>
                /\ SpanOf(u).kind = "ok"
                /\ RLe(Knot(SpanOf(u).val), u)
                /\ RLt(u, Knot(SpanOf(u).val + 1))

\* C22 witness: operator() ran at a parameter strictly inside the domain
\* where the search moved away from its first midpoint.
C22_Witness ==
    /\ ret.op = "position"
    /\ ret.kind = "ok"
    /\ NonDecreasing(knotVector)
    /\ numKnots > numControlPoints
    /\ numKnots > degree
    /\ StrictlyInside(ret.t)
    /\ SpanOf(ret.t).kind = "ok"
    /\ SpanOf(ret.t).val # (degree + numControlPoints) \div 2
    /\ RLe(Knot(SpanOf(ret.t).val), ret.t)
    /\ RLt(ret.t, Knot(SpanOf(ret.t).val + 1))
\* ------------------------------------------------- weight independence claims
\* The weights a second curve gives to the control points.
OtherWeights == {One, R(3)}

\* The control points, each with the weight w.
AllWeighted(w) == [i \in 1..numControlPoints |-> [x |-> controlPoints[i].x, w |-> w]]

\* The control points, the i-th with the weight w.
OneWeighted(i, w) == [controlPoints EXCEPT ![i].w = w]

\* Curves with the coordinates of this one and other weights: every weight
\* replaced, or the weight of one control point.
Reweighted ==
    {AllWeighted(w) : w \in OtherWeights}
        \cup {OneWeighted(i, R(3)) : i \in 1..numControlPoints}

\* C23: derivative( t, k ) does not depend on the weights: a curve with the
\* same degree, knots and coordinates and other weights has, for the same t
\* and k, the outcome the call on this curve had.
C23_WeightIndependence ==
    ret.op = "derivative" =>
        \A o \in {Derivative(ret.t, ret.d, q, knotVector, degree, clamped) : q \in Reweighted} :
            IF o.kind = "ub"
            THEN Derivative(ret.t, ret.d, controlPoints, knotVector, degree, clamped).kind = "ub"
            ELSE ret.out = o

\* C23 witness: a first derivative that is not zero on a valid curve with
\* a control point of weight 2, returned as well by the curve with the
\* weights 3, whose position at the same parameter is a different one.
C23_Witness ==
    /\ ret.op = "derivative"
    /\ ret.d = 1
    /\ Evaluable
    /\ ret.kind = "ok"
    /\ ret.out.val.x # Zero
    /\ \E i \in 1..numControlPoints : controlPoints[i].w = R(2)
    /\ \E q \in Reweighted :
           /\ \A i \in 1..numControlPoints : q[i].w = R(3)
           /\ Derivative(ret.t, 1, q, knotVector, degree, clamped) = ret.out
           /\ Position(ret.t, q, knotVector, degree, clamped)
                  # Position(ret.t, controlPoints, knotVector, degree, clamped)
\* ------------------------------------------------------ non-uniform claims
\* C24: on a spline whose uniform flag is false a pushControlPoint,
\* insertControlPoint or eraseControlPoint step changes the control-point
\* sequence only: the knot vector stays as it was, element for element, and
\* so do the degree and both flags.
C24_NonUniformFrame ==
    [][(~uniform /\ ret'.op \in {"push", "insert", "erase"}) =>
          /\ knotVector' = knotVector
          /\ controlPoints' # controlPoints
          /\ degree' = degree
          /\ uniform' = uniform
          /\ clamped' = clamped]_vars

\* C24 witness: a structural mutator ran on a non-uniform spline with knots
\* and left a knot vector that a regeneration would have replaced and that
\* no longer has numControlPoints + degree + 1 entries.
C24_Witness ==
    /\ ret.op \in {"push", "insert", "erase"}
    /\ ~uniform
    /\ numKnots > 0
    /\ numKnots # numControlPoints + degree + 1
    /\ knotVector # GenerateKnots(numControlPoints, degree, clamped)
\* ------------------------------------------------------- interleaving claims
\* A query has returned.
Returned == ret.op \in {"position", "derivative"} /\ ret.kind # "pending"

\* The count of control points and the knots a query evaluated with satisfy
\* numKnots = numControlPoints + degree + 1.
SeenConsistent == ret.seen.numKnots = ret.seen.numControlPoints + ret.seen.degree + 1

\* C25: a query on a uniform spline during which no step of pushControlPoint
\* ran or was pending evaluates with a count of control points and a knot
\* vector that satisfy numKnots = numControlPoints + degree + 1: only a
\* query interleaved with a pushControlPoint sees them violate the equation.
C25_SerialQueriesAreConsistent == (Returned /\ ~ret.raced) => SeenConsistent

\* C25 witness: a query interleaved with a pushControlPoint read the count
\* of control points after it had grown and evaluated with a knot vector
\* that was only partly refilled.
C25_Witness ==
    /\ Returned
    /\ ret.raced
    /\ writer.pc = "fill"
    /\ ret.seen.numControlPoints = numControlPoints
    /\ ret.seen.numControlPoints = writer.numPoints
    /\ ret.seen.numKnots > 0
    /\ ret.seen.numKnots < ret.seen.numControlPoints + ret.seen.degree + 1
    /\ ~SeenConsistent
====
